---- MODULE Spec2Model ----
(***************************************************************************)
(* A model of StateMap<E> (src/src/lib.rs): a container keyed by           *)
(* (type, state_key) that stores its entries in five hash maps             *)
(* (well_known, membership, aliases, invites, others).                     *)
(*                                                                         *)
(* A HashMap is a function with a finite domain, an Option is a sequence   *)
(* of length 0 (None) or 1 (Some), and a reference into the map            *)
(* (&mut E) is the address of the slot it points to.                       *)
(***************************************************************************)
EXTENDS Integers, Sequences, FiniteSets, Bags, TLC

\* ------------------------------------------------------------------ bounds
\* The largest len() the single-key operations may grow the map to.
MaxLen == 2
\* The longest sequence handed to from_iter / extend.
MaxSeq == 2

\* ------------------------------------------------------ event type strings
TYPE_CREATE == "m.room.create"
TYPE_POWER_LEVELS == "m.room.power_levels"
TYPE_JOIN_RULES == "m.room.join_rules"
TYPE_HISTORY_VISIBILITY == "m.room.history_visibility"
TYPE_NAME == "m.room.name"
TYPE_TOPIC == "m.room.topic"
TYPE_AVATAR == "m.room.avatar"
TYPE_GUEST_ACCESS == "m.room.guest_access"
TYPE_CANONICAL_ALIASES == "m.room.canonical_alias"
TYPE_RELATED_GROUPS == "m.room.related_groups"
TYPE_ENCRYPTION == "m.room.encryption"
TYPE_MEMBERSHIP == "m.room.member"
TYPE_ALIASES == "m.room.aliases"
TYPE_THIRD_PARTY_INVITE == "m.room.third_party_invite"

\* The variants of enum WellKnownEmptyKeys.
WellKnownEmptyKeys ==
    {"Create", "PowerLevels", "JoinRules", "HistoryVisibility", "Name", "Topic",
     "Avatar", "GuestAccess", "CanonicalAliases", "RelatedGroups", "Encryption"}

\* ------------------------------------------------------------------ inputs
\* The type strings, state keys and values the operations are called with.
\* "test" is a type the map has no special storage for.
Types ==
    {TYPE_JOIN_RULES, TYPE_MEMBERSHIP, TYPE_ALIASES, TYPE_THIRD_PARTY_INVITE, "test"}
StateKeys == {"", "foo"}
\* E = an integer type; E::default() is 0.
Values == {0, 1}
\* The variants insert_well_known is called with.
Variants == {"PowerLevels", "JoinRules"}

\* The ((type, state_key), value) pairs the sequences handed to from_iter and
\* extend are made of: a key of each bucket (the one of others a well-known
\* type with a non-empty state key).
BulkKeys ==
    {<<TYPE_JOIN_RULES, "">>, <<TYPE_JOIN_RULES, "foo">>, <<TYPE_MEMBERSHIP, "">>,
     <<TYPE_ALIASES, "foo">>, <<TYPE_THIRD_PARTY_INVITE, "foo">>}
BulkItems == BulkKeys \X Values
BulkSeqs == UNION {[1..n -> BulkItems] : n \in 0..MaxSeq}

\* What a caller writes through a reference it got: nothing, or a value.
Writes == {<<>>} \cup {<<v>> : v \in Values}

\* ------------------------------------------------------------------ Option
None == <<>>
Some(x) == <<x>>
unwrap(o) == o[1]

\* ----------------------------------------------------------------- HashMap
HashMapNew == [x \in {} |-> 0]
hm_get(h, k) == IF k \in DOMAIN h THEN Some(h[k]) ELSE None
hm_insert(h, k, v) == [x \in (DOMAIN h) \cup {k} |-> IF x = k THEN v ELSE h[x]]
hm_remove(h, k) == [x \in (DOMAIN h) \ {k} |-> h[x]]
hm_len(h) == Cardinality(DOMAIN h)

\* ------------------------------------------------------ WellKnownEmptyKeys
\* Mutant of as_str: Name has the string of Topic.
as_str_name_topic(k) ==
    CASE k = "Create" -> TYPE_CREATE
      [] k = "PowerLevels" -> TYPE_POWER_LEVELS
      [] k = "JoinRules" -> TYPE_JOIN_RULES
      [] k = "HistoryVisibility" -> TYPE_HISTORY_VISIBILITY
      [] k = "Name" -> TYPE_TOPIC
      [] k = "Topic" -> TYPE_TOPIC
      [] k = "Avatar" -> TYPE_AVATAR
      [] k = "GuestAccess" -> TYPE_GUEST_ACCESS
      [] k = "CanonicalAliases" -> TYPE_CANONICAL_ALIASES
      [] k = "RelatedGroups" -> TYPE_RELATED_GROUPS
      [] k = "Encryption" -> TYPE_ENCRYPTION

as_str(k) ==
    CASE k = "Create" -> TYPE_CREATE
      [] k = "PowerLevels" -> TYPE_POWER_LEVELS
      [] k = "JoinRules" -> TYPE_JOIN_RULES
      [] k = "HistoryVisibility" -> TYPE_HISTORY_VISIBILITY
      [] k = "Name" -> TYPE_NAME
      [] k = "Topic" -> TYPE_TOPIC
      [] k = "Avatar" -> TYPE_AVATAR
      [] k = "GuestAccess" -> TYPE_GUEST_ACCESS
      [] k = "CanonicalAliases" -> TYPE_CANONICAL_ALIASES
      [] k = "RelatedGroups" -> TYPE_RELATED_GROUPS
      [] k = "Encryption" -> TYPE_ENCRYPTION

\* Mutants of from_str: the arm of m.room.join_rules is missing; m.room.member
\* is taken for a well-known type.
from_str_no_join_rules(t) ==
    CASE t = TYPE_CREATE -> Some("Create")
      [] t = TYPE_POWER_LEVELS -> Some("PowerLevels")
      [] t = TYPE_HISTORY_VISIBILITY -> Some("HistoryVisibility")
      [] t = TYPE_NAME -> Some("Name")
      [] t = TYPE_TOPIC -> Some("Topic")
      [] t = TYPE_AVATAR -> Some("Avatar")
      [] t = TYPE_GUEST_ACCESS -> Some("GuestAccess")
      [] t = TYPE_CANONICAL_ALIASES -> Some("CanonicalAliases")
      [] t = TYPE_RELATED_GROUPS -> Some("RelatedGroups")
      [] t = TYPE_ENCRYPTION -> Some("Encryption")
      [] OTHER -> None

from_str_member(t) ==
    CASE t = TYPE_CREATE -> Some("Create")
      [] t = TYPE_POWER_LEVELS -> Some("PowerLevels")
      [] t = TYPE_JOIN_RULES -> Some("JoinRules")
      [] t = TYPE_HISTORY_VISIBILITY -> Some("HistoryVisibility")
      [] t = TYPE_NAME -> Some("Name")
      [] t = TYPE_TOPIC -> Some("Topic")
      [] t = TYPE_AVATAR -> Some("Avatar")
      [] t = TYPE_GUEST_ACCESS -> Some("GuestAccess")
      [] t = TYPE_CANONICAL_ALIASES -> Some("CanonicalAliases")
      [] t = TYPE_RELATED_GROUPS -> Some("RelatedGroups")
      [] t = TYPE_ENCRYPTION -> Some("Encryption")
      [] t = TYPE_MEMBERSHIP -> Some("Create")
      [] OTHER -> None

from_str(t) ==
    CASE t = TYPE_CREATE -> Some("Create")
      [] t = TYPE_POWER_LEVELS -> Some("PowerLevels")
      [] t = TYPE_JOIN_RULES -> Some("JoinRules")
      [] t = TYPE_HISTORY_VISIBILITY -> Some("HistoryVisibility")
      [] t = TYPE_NAME -> Some("Name")
      [] t = TYPE_TOPIC -> Some("Topic")
      [] t = TYPE_AVATAR -> Some("Avatar")
      [] t = TYPE_GUEST_ACCESS -> Some("GuestAccess")
      [] t = TYPE_CANONICAL_ALIASES -> Some("CanonicalAliases")
      [] t = TYPE_RELATED_GROUPS -> Some("RelatedGroups")
      [] t = TYPE_ENCRYPTION -> Some("Encryption")
      [] OTHER -> None

\* ---------------------------------------------------------------- StateMap
new ==
    [well_known |-> HashMapNew, membership |-> HashMapNew, aliases |-> HashMapNew,
     invites |-> HashMapNew, others |-> HashMapNew]

\* The derived PartialEq: the two maps are equal when each of the five fields
\* of one equals that field of the other (two HashMaps are equal when they
\* have the same keys, with equal values).
eq(self, other) ==
    /\ self.well_known = other.well_known
    /\ self.membership = other.membership
    /\ self.aliases = other.aliases
    /\ self.invites = other.invites
    /\ DOMAIN self.others = DOMAIN other.others
    /\ \A t \in DOMAIN self.others : self.others[t] = other.others[t]

get_well_known(self, key) == hm_get(self.well_known, key)
get_aliases(self, server) == hm_get(self.aliases, server)
get_membership(self, user) == hm_get(self.membership, user)
get_third_party_invites(self, token) == hm_get(self.invites, token)

get(self, t, s) ==
    LET key == IF s = "" THEN from_str(t) ELSE None
    IN IF key # None
    THEN get_well_known(self, unwrap(key))
    ELSE IF t = TYPE_MEMBERSHIP THEN get_membership(self, s)
    ELSE IF t = TYPE_ALIASES THEN get_aliases(self, s)
    ELSE IF t = TYPE_THIRD_PARTY_INVITE THEN get_third_party_invites(self, s)
    ELSE IF hm_get(self.others, t) = None THEN None
    ELSE hm_get(unwrap(hm_get(self.others, t)), s)

\* A reference &mut E is the slot it addresses: the bucket b and the key k in
\* it (for others: the type k and the state key s of the inner map).
Ref(b, k, s) == [b |-> b, k |-> k, s |-> s]

\* Reading and writing through a reference.
deref(self, r) ==
    CASE r.b = "well_known" -> self.well_known[r.k]
      [] r.b = "membership" -> self.membership[r.k]
      [] r.b = "aliases" -> self.aliases[r.k]
      [] r.b = "invites" -> self.invites[r.k]
      [] r.b = "others" -> self.others[r.k][r.s]

\* Mutant of write: the value is written to every slot of the map the slot
\* is in.
write_whole_bucket(self, r, v) ==
    CASE r.b = "well_known" ->
           [self EXCEPT !.well_known = [x \in DOMAIN @ |-> v]]
      [] r.b = "membership" ->
           [self EXCEPT !.membership = [x \in DOMAIN @ |-> v]]
      [] r.b = "aliases" ->
           [self EXCEPT !.aliases = [x \in DOMAIN @ |-> v]]
      [] r.b = "invites" ->
           [self EXCEPT !.invites = [x \in DOMAIN @ |-> v]]
      [] r.b = "others" ->
           [self EXCEPT !.others[r.k] = [x \in DOMAIN @ |-> v]]

write(self, r, v) ==
    CASE r.b = "well_known" -> [self EXCEPT !.well_known[r.k] = v]
      [] r.b = "membership" -> [self EXCEPT !.membership[r.k] = v]
      [] r.b = "aliases" -> [self EXCEPT !.aliases[r.k] = v]
      [] r.b = "invites" -> [self EXCEPT !.invites[r.k] = v]
      [] r.b = "others" -> [self EXCEPT !.others[r.k][r.s] = v]

\* HashMap::get_mut: the slot of k, if k is there.
hm_get_mut(h, b, k, s) ==
    IF (IF b = "others" THEN s ELSE k) \in DOMAIN h THEN Some(Ref(b, k, s)) ELSE None

get_mut(self, t, s) ==
    LET key == IF s = "" THEN from_str(t) ELSE None
    IN IF key # None
    THEN hm_get_mut(self.well_known, "well_known", unwrap(key), "")
    ELSE IF t = TYPE_MEMBERSHIP THEN hm_get_mut(self.membership, "membership", s, "")
    ELSE IF t = TYPE_ALIASES THEN hm_get_mut(self.aliases, "aliases", s, "")
    ELSE IF t = TYPE_THIRD_PARTY_INVITE THEN hm_get_mut(self.invites, "invites", s, "")
    ELSE IF hm_get(self.others, t) = None THEN None
    ELSE hm_get_mut(self.others[t], "others", t, s)

\* Mutant of insert_well_known: a value that is there is kept.
insert_well_known_if_absent(self, k, value) ==
    IF k \in DOMAIN self.well_known THEN self
    ELSE [self EXCEPT !.well_known = hm_insert(self.well_known, k, value)]

insert_well_known(self, k, value) ==
    [self EXCEPT !.well_known = hm_insert(self.well_known, k, value)]

\* Mutant of insert: the well-known bucket is used for a well-known type
\* whatever the state key.
insert_any_state_key(self, t, s, value) ==
    IF from_str(t) # None
    THEN [self EXCEPT !.well_known = hm_insert(self.well_known, unwrap(from_str(t)), value)]
    ELSE IF t = TYPE_MEMBERSHIP
    THEN [self EXCEPT !.membership = hm_insert(self.membership, s, value)]
    ELSE IF t = TYPE_ALIASES
    THEN [self EXCEPT !.aliases = hm_insert(self.aliases, s, value)]
    ELSE IF t = TYPE_THIRD_PARTY_INVITE
    THEN [self EXCEPT !.invites = hm_insert(self.invites, s, value)]
    ELSE LET inner == IF t \in DOMAIN self.others THEN self.others[t] ELSE HashMapNew
         IN [self EXCEPT !.others = hm_insert(self.others, t, hm_insert(inner, s, value))]

\* Mutant of insert: m.room.member has no branch of its own and is stored in
\* others.
insert_member_in_others(self, t, s, value) ==
    LET key == IF s = "" THEN from_str(t) ELSE None
    IN IF key # None
    THEN [self EXCEPT !.well_known = hm_insert(self.well_known, unwrap(key), value)]
    ELSE IF t = TYPE_ALIASES
    THEN [self EXCEPT !.aliases = hm_insert(self.aliases, s, value)]
    ELSE IF t = TYPE_THIRD_PARTY_INVITE
    THEN [self EXCEPT !.invites = hm_insert(self.invites, s, value)]
    ELSE LET inner == IF t \in DOMAIN self.others THEN self.others[t] ELSE HashMapNew
         IN [self EXCEPT !.others = hm_insert(self.others, t, hm_insert(inner, s, value))]

insert(self, t, s, value) ==
    LET key == IF s = "" THEN from_str(t) ELSE None
    IN IF key # None
    THEN [self EXCEPT !.well_known = hm_insert(self.well_known, unwrap(key), value)]
    ELSE IF t = TYPE_MEMBERSHIP
    THEN [self EXCEPT !.membership = hm_insert(self.membership, s, value)]
    ELSE IF t = TYPE_ALIASES
    THEN [self EXCEPT !.aliases = hm_insert(self.aliases, s, value)]
    ELSE IF t = TYPE_THIRD_PARTY_INVITE
    THEN [self EXCEPT !.invites = hm_insert(self.invites, s, value)]
    ELSE LET inner == IF t \in DOMAIN self.others THEN self.others[t] ELSE HashMapNew
         IN [self EXCEPT !.others = hm_insert(self.others, t, hm_insert(inner, s, value))]

contains_key(self, t, s) == get(self, t, s) # None

RECURSIVE SumLens(_, _)
SumLens(o, S) ==
    IF S = {} THEN 0
    ELSE LET x == CHOOSE x \in S : TRUE IN hm_len(o[x]) + SumLens(o, S \ {x})

\* Mutant of len: the others bucket counts its inner maps, not their entries.
len_outer_others(self) ==
    hm_len(self.well_known) + hm_len(self.membership) + hm_len(self.aliases)
    + hm_len(self.invites) + hm_len(self.others)

len(self) ==
    LET others == SumLens(self.others, DOMAIN self.others)
    IN hm_len(self.well_known) + hm_len(self.membership) + hm_len(self.aliases)
       + hm_len(self.invites) + others

is_empty(self) == len(self) = 0

\* E::default()
Default == 0

\* Mutant of or_insert_default: the default is stored over a value that is there.
or_insert_default_always(h, k) == hm_insert(h, k, Default)

\* hash_map::Entry::or_insert_with(E::default) on the entry of k.
or_insert_default(h, k) == IF k \in DOMAIN h THEN h ELSE hm_insert(h, k, Default)

\* Returns the map after the call and the reference the call returns.
get_mut_or_default(self, t, s) ==
    LET key == IF s = "" THEN from_str(t) ELSE None
    IN IF key # None
    THEN [map |-> [self EXCEPT !.well_known =
                      or_insert_default(self.well_known, unwrap(key))],
          ref |-> Ref("well_known", unwrap(key), "")]
    ELSE IF t = TYPE_MEMBERSHIP
    THEN [map |-> [self EXCEPT !.membership = or_insert_default(self.membership, s)],
          ref |-> Ref("membership", s, "")]
    ELSE IF t = TYPE_ALIASES
    THEN [map |-> [self EXCEPT !.aliases = or_insert_default(self.aliases, s)],
          ref |-> Ref("aliases", s, "")]
    ELSE IF t = TYPE_THIRD_PARTY_INVITE
    THEN [map |-> [self EXCEPT !.invites = or_insert_default(self.invites, s)],
          ref |-> Ref("invites", s, "")]
    ELSE LET inner == IF t \in DOMAIN self.others THEN self.others[t] ELSE HashMapNew
         IN [map |-> [self EXCEPT !.others =
                         hm_insert(self.others, t, or_insert_default(inner, s))],
             ref |-> Ref("others", t, s)]

\* Mutants of entry_add_or_remove: a conflict overwrites the value instead of
\* removing it; the comparison is inverted; a vacant entry is left vacant.
entry_add_or_remove_overwrite(h, k, value) ==
    IF k \in DOMAIN h
    THEN IF h[k] # value
         THEN [h |-> hm_insert(h, k, value), ret |-> Some(h[k])]
         ELSE [h |-> h, ret |-> None]
    ELSE [h |-> hm_insert(h, k, value), ret |-> None]

entry_add_or_remove_inverted(h, k, value) ==
    IF k \in DOMAIN h
    THEN IF h[k] = value
         THEN [h |-> hm_remove(h, k), ret |-> Some(h[k])]
         ELSE [h |-> h, ret |-> None]
    ELSE [h |-> hm_insert(h, k, value), ret |-> None]

entry_add_or_remove_no_insert(h, k, value) ==
    IF k \in DOMAIN h
    THEN IF h[k] # value
         THEN [h |-> hm_remove(h, k), ret |-> Some(h[k])]
         ELSE [h |-> h, ret |-> None]
    ELSE [h |-> h, ret |-> None]

\* The match on the entry of k that add_or_remove makes in each bucket:
\* the bucket after it, and the value returned.
entry_add_or_remove(h, k, value) ==
    IF k \in DOMAIN h
    THEN IF h[k] # value
         THEN [h |-> hm_remove(h, k), ret |-> Some(h[k])]
         ELSE [h |-> h, ret |-> None]
    ELSE [h |-> hm_insert(h, k, value), ret |-> None]

\* Mutant of add_or_remove: an inner map of others that a conflict leaves
\* empty is removed from others.
add_or_remove_pruning(self, t, s, value) ==
    LET key == IF s = "" THEN from_str(t) ELSE None
    IN IF key # None
    THEN LET e == entry_add_or_remove(self.well_known, unwrap(key), value)
         IN [map |-> [self EXCEPT !.well_known = e.h], ret |-> e.ret]
    ELSE IF t = TYPE_MEMBERSHIP
    THEN LET e == entry_add_or_remove(self.membership, s, value)
         IN [map |-> [self EXCEPT !.membership = e.h], ret |-> e.ret]
    ELSE IF t = TYPE_ALIASES
    THEN LET e == entry_add_or_remove(self.aliases, s, value)
         IN [map |-> [self EXCEPT !.aliases = e.h], ret |-> e.ret]
    ELSE IF t = TYPE_THIRD_PARTY_INVITE
    THEN LET e == entry_add_or_remove(self.invites, s, value)
         IN [map |-> [self EXCEPT !.invites = e.h], ret |-> e.ret]
    ELSE IF t \in DOMAIN self.others
    THEN LET e == entry_add_or_remove(self.others[t], s, value)
         IN IF DOMAIN e.h = {}
            THEN [map |-> [self EXCEPT !.others = hm_remove(self.others, t)],
                  ret |-> e.ret]
            ELSE [map |-> [self EXCEPT !.others[t] = e.h], ret |-> e.ret]
    ELSE [map |-> [self EXCEPT !.others =
                      hm_insert(self.others, t, hm_insert(HashMapNew, s, value))],
          ret |-> None]

\* Mutant of add_or_remove: in an inner map of others that is there, a vacant
\* entry is left vacant.
add_or_remove_inner_vacant_skipped(self, t, s, value) ==
    LET key == IF s = "" THEN from_str(t) ELSE None
    IN IF key # None
    THEN LET e == entry_add_or_remove(self.well_known, unwrap(key), value)
         IN [map |-> [self EXCEPT !.well_known = e.h], ret |-> e.ret]
    ELSE IF t = TYPE_MEMBERSHIP
    THEN LET e == entry_add_or_remove(self.membership, s, value)
         IN [map |-> [self EXCEPT !.membership = e.h], ret |-> e.ret]
    ELSE IF t = TYPE_ALIASES
    THEN LET e == entry_add_or_remove(self.aliases, s, value)
         IN [map |-> [self EXCEPT !.aliases = e.h], ret |-> e.ret]
    ELSE IF t = TYPE_THIRD_PARTY_INVITE
    THEN LET e == entry_add_or_remove(self.invites, s, value)
         IN [map |-> [self EXCEPT !.invites = e.h], ret |-> e.ret]
    ELSE IF t \in DOMAIN self.others
    THEN IF s \in DOMAIN self.others[t]
         THEN LET e == entry_add_or_remove(self.others[t], s, value)
              IN [map |-> [self EXCEPT !.others[t] = e.h], ret |-> e.ret]
         ELSE [map |-> self, ret |-> None]
    ELSE [map |-> [self EXCEPT !.others =
                      hm_insert(self.others, t, hm_insert(HashMapNew, s, value))],
          ret |-> None]

\* Returns the map after the call and the value the call returns.
add_or_remove(self, t, s, value) ==
    LET key == IF s = "" THEN from_str(t) ELSE None
    IN IF key # None
    THEN LET e == entry_add_or_remove(self.well_known, unwrap(key), value)
         IN [map |-> [self EXCEPT !.well_known = e.h], ret |-> e.ret]
    ELSE IF t = TYPE_MEMBERSHIP
    THEN LET e == entry_add_or_remove(self.membership, s, value)
         IN [map |-> [self EXCEPT !.membership = e.h], ret |-> e.ret]
    ELSE IF t = TYPE_ALIASES
    THEN LET e == entry_add_or_remove(self.aliases, s, value)
         IN [map |-> [self EXCEPT !.aliases = e.h], ret |-> e.ret]
    ELSE IF t = TYPE_THIRD_PARTY_INVITE
    THEN LET e == entry_add_or_remove(self.invites, s, value)
         IN [map |-> [self EXCEPT !.invites = e.h], ret |-> e.ret]
    ELSE IF t \in DOMAIN self.others
    THEN LET e == entry_add_or_remove(self.others[t], s, value)
         IN [map |-> [self EXCEPT !.others[t] = e.h], ret |-> e.ret]
    ELSE [map |-> [self EXCEPT !.others =
                      hm_insert(self.others, t, hm_insert(HashMapNew, s, value))],
          ret |-> None]

\* ------------------------------------------------- FromIterator and Extend
\* Mutant of extend: the pairs are taken from the last to the first.
RECURSIVE extend_reversed(_, _)
extend_reversed(self, iter) ==
    IF iter = <<>> THEN self
    ELSE LET n == Len(iter)
         IN extend_reversed(insert(self, iter[n][1][1], iter[n][1][2], iter[n][2]),
                            SubSeq(iter, 1, n - 1))

\* Mutant of extend: the pairs are inserted into a new map, as from_iter does.
RECURSIVE extend_into_new(_, _)
extend_into_new(self, iter) ==
    IF iter = <<>> THEN new
    ELSE LET n == Len(iter)
         IN insert(extend_into_new(self, SubSeq(iter, 1, n - 1)),
                   iter[n][1][1], iter[n][1][2], iter[n][2])

\* for ((t, s), e) in iter { self.insert(t, s, e) }
RECURSIVE extend(_, _)
extend(self, iter) ==
    IF iter = <<>> THEN self
    ELSE extend(insert(self, Head(iter)[1][1], Head(iter)[1][2], Head(iter)[2]),
                Tail(iter))

\* The loop of from_iter, on the map it builds.
RECURSIVE from_iter_loop(_, _)
from_iter_loop(state_map, iter) ==
    IF iter = <<>> THEN state_map
    ELSE from_iter_loop(
             insert(state_map, Head(iter)[1][1], Head(iter)[1][2], Head(iter)[2]),
             Tail(iter))

from_iter(iter) == from_iter_loop(new, iter)

\* --------------------------------------------------------------- iteration
\* An iterator is the bag of the items it yields (a HashMap yields its entries
\* in no specified order). map_iter: the items F[x] that a map() over the
\* entries x of a HashMap yields, F giving the item of each entry; chaining
\* two iterators adds their bags.
map_iter(F) == [i \in {F[x] : x \in DOMAIN F} |-> Cardinality({x \in DOMAIN F : F[x] = i})]
chain(a, b) == a (+) b

\* self.others.iter().flat_map(|(t, h)| h.iter()...): the (t, s) of every
\* entry of every inner map.
flat_map(o) == UNION {{<<t, s>> : s \in DOMAIN o[t]} : t \in DOMAIN o}

\* Mutant of iter: the membership bucket is left out of the chain.
iter_without_membership(self) ==
    LET w == map_iter([k \in DOMAIN self.well_known |->
                          <<<<as_str(k), "">>, self.well_known[k]>>])
        a == map_iter([x \in DOMAIN self.aliases |->
                          <<<<TYPE_ALIASES, x>>, self.aliases[x]>>])
        i == map_iter([x \in DOMAIN self.invites |->
                          <<<<TYPE_THIRD_PARTY_INVITE, x>>, self.invites[x]>>])
        o == map_iter([x \in flat_map(self.others) |->
                          <<<<x[1], x[2]>>, self.others[x[1]][x[2]]>>])
    IN chain(chain(chain(w, a), i), o)

iter(self) ==
    LET w == map_iter([k \in DOMAIN self.well_known |->
                          <<<<as_str(k), "">>, self.well_known[k]>>])
        m == map_iter([u \in DOMAIN self.membership |->
                          <<<<TYPE_MEMBERSHIP, u>>, self.membership[u]>>])
        a == map_iter([x \in DOMAIN self.aliases |->
                          <<<<TYPE_ALIASES, x>>, self.aliases[x]>>])
        i == map_iter([x \in DOMAIN self.invites |->
                          <<<<TYPE_THIRD_PARTY_INVITE, x>>, self.invites[x]>>])
        o == map_iter([x \in flat_map(self.others) |->
                          <<<<x[1], x[2]>>, self.others[x[1]][x[2]]>>])
    IN chain(chain(chain(chain(w, m), a), i), o)

\* The sequences in which an iterator may yield the items of the bag b (a
\* HashMap yields its entries in an order that is not specified), and those
\* of a.chain(b): all of a, then all of b.
Orders(b) ==
    LET n == BagCardinality(b)
    IN {q \in [1..n -> BagToSet(b)] :
          \A e \in BagToSet(b) : Cardinality({x \in 1..n : q[x] = e}) = b[e]}
chain_orders(A, B) == {a \o b : a \in A, b \in B}

\* w.chain(m).chain(a).chain(i).chain(o) on the five iterators p: the
\* sequences it may yield.
chain_parts_orders(p) ==
    chain_orders(chain_orders(chain_orders(chain_orders(
        Orders(p[1]), Orders(p[2])), Orders(p[3])), Orders(p[4])), Orders(p[5]))

\* The five iterators that iter() chains, in the order it chains them:
\* w, m, a, i, o.
iter_parts(self) ==
    <<map_iter([k \in DOMAIN self.well_known |->
                   <<<<as_str(k), "">>, self.well_known[k]>>]),
      map_iter([u \in DOMAIN self.membership |->
                   <<<<TYPE_MEMBERSHIP, u>>, self.membership[u]>>]),
      map_iter([x \in DOMAIN self.aliases |->
                   <<<<TYPE_ALIASES, x>>, self.aliases[x]>>]),
      map_iter([x \in DOMAIN self.invites |->
                   <<<<TYPE_THIRD_PARTY_INVITE, x>>, self.invites[x]>>]),
      map_iter([x \in flat_map(self.others) |->
                   <<<<x[1], x[2]>>, self.others[x[1]][x[2]]>>])>>

\* The sequences iter() may yield.
iter_orders(self) == chain_parts_orders(iter_parts(self))

\* Mutant of keys_parts: m is chained before w.
keys_parts_membership_first(self) ==
    <<map_iter([u \in DOMAIN self.membership |-> <<TYPE_MEMBERSHIP, u>>]),
      map_iter([k \in DOMAIN self.well_known |-> <<as_str(k), "">>]),
      map_iter([x \in DOMAIN self.aliases |-> <<TYPE_ALIASES, x>>]),
      map_iter([x \in DOMAIN self.invites |-> <<TYPE_THIRD_PARTY_INVITE, x>>]),
      map_iter([x \in flat_map(self.others) |-> <<x[1], x[2]>>])>>

\* The five iterators that keys() chains, in the order it chains them:
\* w, m, a, i, o. The items are (type, state_key).
keys_parts(self) ==
    <<map_iter([k \in DOMAIN self.well_known |-> <<as_str(k), "">>]),
      map_iter([u \in DOMAIN self.membership |-> <<TYPE_MEMBERSHIP, u>>]),
      map_iter([x \in DOMAIN self.aliases |-> <<TYPE_ALIASES, x>>]),
      map_iter([x \in DOMAIN self.invites |-> <<TYPE_THIRD_PARTY_INVITE, x>>]),
      map_iter([x \in flat_map(self.others) |-> <<x[1], x[2]>>])>>

keys(self) ==
    LET p == keys_parts(self)
    IN chain(chain(chain(chain(p[1], p[2]), p[3]), p[4]), p[5])

\* The sequences keys() may yield.
keys_orders(self) == chain_parts_orders(keys_parts(self))

\* Mutant of values_parts: each of the five iterators yields a value once,
\* however many entries hold it.
values_parts_distinct(self) ==
    <<SetToBag({self.well_known[x] : x \in DOMAIN self.well_known}),
      SetToBag({self.membership[x] : x \in DOMAIN self.membership}),
      SetToBag({self.aliases[x] : x \in DOMAIN self.aliases}),
      SetToBag({self.invites[x] : x \in DOMAIN self.invites}),
      SetToBag({self.others[x[1]][x[2]] : x \in flat_map(self.others)})>>

\* The five iterators that values() chains, in the order it chains them.
values_parts(self) ==
    <<map_iter(self.well_known),
      map_iter(self.membership),
      map_iter(self.aliases),
      map_iter(self.invites),
      map_iter([x \in flat_map(self.others) |-> self.others[x[1]][x[2]]])>>

values(self) ==
    LET p == values_parts(self)
    IN chain(chain(chain(chain(p[1], p[2]), p[3]), p[4]), p[5])

\* The sequences values() may yield.
values_orders(self) == chain_parts_orders(values_parts(self))

\* The items are (state_key, value).
iter_members(self) ==
    map_iter([u \in DOMAIN self.membership |-> <<u, self.membership[u]>>])

\* Mutant of iter_non_members: the aliases bucket is left out of the chain.
iter_non_members_without_aliases(self) ==
    LET w == map_iter([k \in DOMAIN self.well_known |->
                          <<<<as_str(k), "">>, self.well_known[k]>>])
        i == map_iter([x \in DOMAIN self.invites |->
                          <<<<TYPE_THIRD_PARTY_INVITE, x>>, self.invites[x]>>])
        o == map_iter([x \in flat_map(self.others) |->
                          <<<<x[1], x[2]>>, self.others[x[1]][x[2]]>>])
    IN chain(chain(w, i), o)

iter_non_members(self) ==
    LET w == map_iter([k \in DOMAIN self.well_known |->
                          <<<<as_str(k), "">>, self.well_known[k]>>])
        a == map_iter([x \in DOMAIN self.aliases |->
                          <<<<TYPE_ALIASES, x>>, self.aliases[x]>>])
        i == map_iter([x \in DOMAIN self.invites |->
                          <<<<TYPE_THIRD_PARTY_INVITE, x>>, self.invites[x]>>])
        o == map_iter([x \in flat_map(self.others) |->
                          <<<<x[1], x[2]>>, self.others[x[1]][x[2]]>>])
    IN chain(chain(chain(w, a), i), o)

\* Mutant of iter_join_rules_i: the entry looked up is the one of PowerLevels.
iter_join_rules_i_power_levels(self) ==
    LET e == hm_get(self.well_known, "PowerLevels")
    IN map_iter([n \in DOMAIN e |-> <<"", e[n]>>])

\* let i: the Option that well_known.get() returns, iterated (no item or one)
\* and mapped to ("", e).
iter_join_rules_i(self) ==
    LET e == hm_get(self.well_known, "JoinRules")
    IN map_iter([n \in DOMAIN e |-> <<"", e[n]>>])

\* let o: the Option that others.get() returns, iterated and flat-mapped to
\* the (s, e) of the entries of the inner map.
iter_join_rules_o(self) ==
    LET h == hm_get(self.others, TYPE_JOIN_RULES)
    IN IF h = None THEN EmptyBag
       ELSE map_iter([s \in DOMAIN unwrap(h) |-> <<s, unwrap(h)[s]>>])

\* The items are (state_key, value).
iter_join_rules(self) == chain(iter_join_rules_i(self), iter_join_rules_o(self))

\* The sequences iter_join_rules may yield.
iter_join_rules_orders(self) ==
    chain_orders(Orders(iter_join_rules_i(self)), Orders(iter_join_rules_o(self)))

\* ------------------------------------------------------------------- state
\* state_map: the StateMap the calls are made on.
\* last: the call just made on it, while the caller holds what it returned:
\*   the operation, its arguments (t, s, and v as an Option; seq for the bulk
\*   operations), what it returned (ret), and the map as it was before the
\*   call (pre). op = "idle" when the caller holds nothing: a returned
\*   reference borrows the map, so the next call is made once it is dropped.
VARIABLES state_map, last
vars == <<state_map, last>>

Call(op, t, s, v, ret, seq) ==
    [op |-> op, t |-> t, s |-> s, v |-> v, ret |-> ret, seq |-> seq,
     pre |-> state_map]

Idle == [op |-> "idle", t |-> "", s |-> "", v |-> None, ret |-> None,
         seq |-> <<>>, pre |-> new]

Init ==
    /\ state_map = new
    /\ last = Idle

\* The map may grow by the call only while it is below MaxLen.
Room(t, s) == get(state_map, t, s) # None \/ len(state_map) < MaxLen

Insert(t, s, v) ==
    /\ last.op = "idle"
    /\ Room(t, s)
    /\ state_map' = insert(state_map, t, s, v)
    /\ last' = Call("insert", t, s, Some(v), None, <<>>)

InsertWellKnown(k, v) ==
    /\ last.op = "idle"
    /\ (get_well_known(state_map, k) # None \/ len(state_map) < MaxLen)
    /\ state_map' = insert_well_known(state_map, k, v)
    /\ last' = Call("insert_well_known", k, "", Some(v), None, <<>>)

\* get_mut, and the caller writing w through the reference it got (w = None:
\* the caller writes nothing, as it must when it got no reference).
GetMut(t, s, w) ==
    LET r == get_mut(state_map, t, s)
    IN /\ last.op = "idle"
       /\ r = None => w = None
       /\ state_map' = IF w = None THEN state_map
                       ELSE write(state_map, unwrap(r), unwrap(w))
       /\ last' = Call("get_mut", t, s, w, r, <<>>)

\* get_mut_or_default, and the caller writing w through the reference.
GetMutOrDefault(t, s, w) ==
    LET r == get_mut_or_default(state_map, t, s)
    IN /\ last.op = "idle"
       /\ Room(t, s)
       /\ state_map' = IF w = None THEN r.map ELSE write(r.map, r.ref, unwrap(w))
       /\ last' = Call("get_mut_or_default", t, s, w, Some(r.ref), <<>>)

AddOrRemove(t, s, v) ==
    LET r == add_or_remove(state_map, t, s, v)
    IN /\ last.op = "idle"
       /\ Room(t, s)
       /\ state_map' = r.map
       /\ last' = Call("add_or_remove", t, s, Some(v), r.ret, <<>>)

\* The caller drops what the call returned; the borrow of the map ends.
Drop ==
    /\ last.op # "idle"
    /\ last' = Idle
    /\ UNCHANGED state_map

\* state_map = iter.collect(): the map is built anew from the sequence.
FromIter(seq) ==
    /\ last.op = "idle"
    /\ state_map' = from_iter(seq)
    /\ last' = [Call("from_iter", "", "", None, None, seq) EXCEPT !.pre = new]

Extend(seq) ==
    /\ last.op = "idle"
    /\ state_map' = extend(state_map, seq)
    /\ last' = Call("extend", "", "", None, None, seq)

Next ==
    \/ \E t \in Types, s \in StateKeys, v \in Values : Insert(t, s, v)
    \/ \E k \in Variants, v \in Values : InsertWellKnown(k, v)
    \/ \E t \in Types, s \in StateKeys, w \in Writes : GetMut(t, s, w)
    \/ \E t \in Types, s \in StateKeys, w \in Writes : GetMutOrDefault(t, s, w)
    \/ \E t \in Types, s \in StateKeys, v \in Values : AddOrRemove(t, s, v)
    \/ Drop

Spec == Init /\ [][Next]_vars

\* The bulk operations alone.
NextBulk ==
    \/ \E seq \in BulkSeqs : FromIter(seq)
    \/ \E seq \in BulkSeqs : Extend(seq)
    \/ Drop

SpecBulk == Init /\ [][NextBulk]_vars

\* get and contains_key take &self: they return what they find and leave the
\* map as it is.
Get(t, s) ==
    /\ last.op = "idle"
    /\ last' = Call("get", t, s, None, get(state_map, t, s), <<>>)
    /\ UNCHANGED state_map

ContainsKey(t, s) ==
    /\ last.op = "idle"
    /\ last' = Call("contains_key", t, s, None, Some(contains_key(state_map, t, s)), <<>>)
    /\ UNCHANGED state_map

\* The single-key operations together with the two lookups and with extend,
\* which is handed sequences of pairs of one value and may grow the map up to
\* MaxLen.
ExtendSeqs == UNION {[1..n -> BulkKeys \X {1}] : n \in 0..MaxSeq}

NextAll ==
    \/ Next
    \/ \E t \in Types, s \in StateKeys : Get(t, s)
    \/ \E t \in Types, s \in StateKeys : ContainsKey(t, s)
    \/ /\ last.op = "idle"
       /\ \E seq \in ExtendSeqs :
            len(extend(state_map, seq)) <= MaxLen /\ Extend(seq)

SpecAll == Init /\ [][NextAll]_vars

\* The conversions of WellKnownEmptyKeys alone, called with every variant and
\* with the fourteen type strings, the empty string and a string that is no
\* type of the library; last.seq holds the calls made, up to MaxSeq of them,
\* each with its argument and what it returned.
ConvStrings ==
    {as_str(k) : k \in WellKnownEmptyKeys}
        \cup {TYPE_MEMBERSHIP, TYPE_ALIASES, TYPE_THIRD_PARTY_INVITE, "", "test"}

AsStr(k) ==
    /\ Len(last.seq) < MaxSeq
    /\ last' = [last EXCEPT !.op = "as_str",
                            !.seq = Append(@, [op |-> "as_str", arg |-> k,
                                               ret |-> as_str(k)])]
    /\ UNCHANGED state_map

FromStr(t) ==
    /\ Len(last.seq) < MaxSeq
    /\ last' = [last EXCEPT !.op = "from_str",
                            !.seq = Append(@, [op |-> "from_str", arg |-> t,
                                               ret |-> from_str(t)])]
    /\ UNCHANGED state_map

NextConv ==
    \/ \E k \in WellKnownEmptyKeys : AsStr(k)
    \/ \E t \in ConvStrings : FromStr(t)

SpecConv == Init /\ [][NextConv]_vars

\* ------------------------------------------------------------------ claims
\* The keys the claims look up: those the calls are made with, the well-known
\* types insert_well_known stores, and a type never stored.
ProbeTypes == Types \cup {as_str(k) : k \in Variants} \cup {"missing"}
ProbeKeys == ProbeTypes \X StateKeys

\* What get() returned for the key of the last call before that call.
Old == get(last.pre, last.t, last.s)
\* What get() returns for the key of the last call now.
Now == get(state_map, last.t, last.s)

\* C1: insert(type, state_key, v) followed by get(type, state_key) returns v,
\* whatever the key held before and whichever bucket it routes to.
C1_InsertThenGet == last.op = "insert" => Now = last.v

\* An insert of a well-known type with a non-empty state key (others bucket)
\* over a different value.
C1_Witness ==
    /\ last.op = "insert" /\ last.t = TYPE_JOIN_RULES /\ last.s = "foo"
    /\ Old # None /\ Old # last.v
    /\ Now = last.v

\* C2: add_or_remove(key, v2) on a key that holds v1 # v2 returns Some(v1) and
\* leaves the key absent.
C2_Conflict ==
    (last.op = "add_or_remove" /\ Old # None /\ Old # last.v)
        => (last.ret = Old /\ Now = None)

\* A conflict on a key of the others bucket.
C2_Witness ==
    /\ last.op = "add_or_remove" /\ last.t = "test"
    /\ Old # None /\ Old # last.v
    /\ last.ret = Old /\ Now = None

\* C3: add_or_remove(key, v) on a key that holds v returns None and leaves the
\* map as it was, so that the same call made again does the same.
C3_Agreement ==
    (last.op = "add_or_remove" /\ Old = last.v)
        => /\ last.ret = None
           /\ state_map = last.pre
           /\ LET again == add_or_remove(state_map, last.t, last.s, unwrap(last.v))
              IN again.ret = None /\ again.map = state_map

\* An agreeing call on a well-known key.
C3_Witness ==
    /\ last.op = "add_or_remove" /\ last.t = TYPE_JOIN_RULES /\ last.s = ""
    /\ Old = last.v /\ last.ret = None /\ Now = last.v

\* C4: add_or_remove(key, v) on an absent key returns None and stores v.
C4_Vacant ==
    (last.op = "add_or_remove" /\ Old = None)
        => (last.ret = None /\ Now = last.v)

\* A vacant call on a type of the others bucket whose inner mapping was there
\* without the state key.
C4_Witness ==
    /\ last.op = "add_or_remove" /\ last.t = "test" /\ Old = None
    /\ "test" \in DOMAIN last.pre.others
    /\ last.ret = None /\ Now = last.v

\* The keys get() finds in the map, and the entries it finds there.
LiveKeys(m) == {k \in ProbeKeys : get(m, k[1], k[2]) # None}
LiveEntries(m) == {<<k, unwrap(get(m, k[1], k[2]))>> : k \in LiveKeys(m)}

\* C5: iter() yields exactly the live entries, each once: every key k for
\* which get(k) is Some, paired with get(k), and nothing else.
C5_IterComplete == iter(state_map) = SetToBag(LiveEntries(state_map))

\* A conflict has just removed the only entry of an others type, whose inner
\* mapping stays behind empty, and an entry of another bucket is live.
C5_Witness ==
    /\ last.op = "add_or_remove" /\ last.ret # None /\ last.t = "test"
    /\ "test" \in DOMAIN state_map.others /\ DOMAIN state_map.others["test"] = {}
    /\ hm_len(state_map.membership) = 1
    /\ BagCardinality(iter(state_map)) = 1

\* C6: len() is the number of keys get() finds (N after inserting N distinct
\* keys), and the sum of the sizes of the five buckets; an insert at a present
\* key leaves len() as it was and one at an absent key adds one; is_empty()
\* holds exactly when len() = 0, that is when get() finds no key.
C6_LenConsistent ==
    /\ len(state_map) = Cardinality(LiveKeys(state_map))
    /\ len(state_map) =
         Cardinality(DOMAIN state_map.well_known) + Cardinality(DOMAIN state_map.membership)
         + Cardinality(DOMAIN state_map.aliases) + Cardinality(DOMAIN state_map.invites)
         + Cardinality(flat_map(state_map.others))
    /\ is_empty(state_map) <=> len(state_map) = 0
    /\ is_empty(state_map) <=> LiveKeys(state_map) = {}
    /\ last.op = "insert" =>
         len(state_map) = len(last.pre) + (IF Old = None THEN 0 ELSE -1) + 1

\* An insert of a different value at a present key of the others bucket, in a
\* map of two entries, both of one others type.
C6_Witness ==
    /\ last.op = "insert" /\ last.t = "test" /\ Old # None /\ Old # last.v
    /\ len(state_map) = 2 /\ len(last.pre) = 2
    /\ hm_len(state_map.others["test"]) = 2

\* C7: the direct accessors agree with get(): get_well_known(v) with
\* get(v.as_str(), "") for every variant v, and get_membership(k), get_aliases(k),
\* get_third_party_invites(k) with get() of their type, for every state key k;
\* an insert at (well-known type, "") is found by get_well_known.
C7_AccessorsAgree ==
    /\ \A k \in WellKnownEmptyKeys :
         /\ get_well_known(state_map, k) = get(state_map, as_str(k), "")
         /\ (last.op = "insert" /\ last.t = as_str(k) /\ last.s = "")
              => get_well_known(state_map, k) = last.v
    /\ \A k \in StateKeys :
         /\ get_membership(state_map, k) = get(state_map, TYPE_MEMBERSHIP, k)
         /\ get_aliases(state_map, k) = get(state_map, TYPE_ALIASES, k)
         /\ get_third_party_invites(state_map, k) = get(state_map, TYPE_THIRD_PARTY_INVITE, k)

\* An insert at (m.room.join_rules, "") into a map that holds an alias under
\* the empty state key.
C7_Witness ==
    /\ last.op = "insert" /\ last.t = TYPE_JOIN_RULES /\ last.s = ""
    /\ get_well_known(state_map, "JoinRules") = last.v
    /\ get_aliases(state_map, "") # None

\* C8: insert("m.room.member", "", v) stores v in the membership bucket under
\* the empty state key: get finds it, len() grows by one if the key was absent,
\* and the well-known bucket, hence every get_well_known, is as before.
C8_MemberEmptyKey ==
    (last.op = "insert" /\ last.t = TYPE_MEMBERSHIP /\ last.s = "")
        => /\ Now = last.v
           /\ hm_get(state_map.membership, "") = last.v
           /\ Old = None => len(state_map) = len(last.pre) + 1
           /\ Old # None => len(state_map) = len(last.pre)
           /\ state_map.well_known = last.pre.well_known
           /\ hm_len(state_map.well_known) = hm_len(last.pre.well_known)
           /\ \A k \in WellKnownEmptyKeys :
                get_well_known(state_map, k) = get_well_known(last.pre, k)

\* Such an insert at an absent key, into a map whose well-known bucket holds one
\* entry, of another value.
C8_Witness ==
    /\ last.op = "insert" /\ last.t = TYPE_MEMBERSHIP /\ last.s = ""
    /\ Old = None /\ Now = last.v
    /\ hm_len(state_map.well_known) = 1
    /\ \A k \in WellKnownEmptyKeys : get_well_known(state_map, k) # last.v

\* C10: get_mut_or_default(type, state_key) leaves a present value as it was
\* and stores E::default() at an absent key, len() growing by one only then;
\* the reference it returns is the one get_mut returns for the key, and what
\* get returns is what the reference holds, also after a write through it.
C10_GetMutOrDefault ==
    last.op = "get_mut_or_default"
        => /\ len(state_map) = len(last.pre) + (IF Old = None THEN 1 ELSE 0)
           /\ get_mut(state_map, last.t, last.s) = last.ret
           /\ Now = Some(deref(state_map, unwrap(last.ret)))
           /\ last.v # None => Now = last.v
           /\ (last.v = None /\ Old # None) => (Now = Old /\ state_map = last.pre)
           /\ (last.v = None /\ Old = None) => Now = Some(Default)

\* A call on a present well-known key that holds a value other than the
\* default, with nothing written.
C10_Witness ==
    /\ last.op = "get_mut_or_default" /\ last.t = TYPE_JOIN_RULES /\ last.s = ""
    /\ last.v = None /\ Old # None /\ Old # Some(Default) /\ Now = Old

\* Starting from m and calling insert for each pair of seq, in sequence order.
RECURSIVE InsertEach(_, _)
InsertEach(m, seq) ==
    IF seq = <<>> THEN m
    ELSE LET n == Len(seq)
         IN insert(InsertEach(m, SubSeq(seq, 1, n - 1)), seq[n][1][1], seq[n][1][2], seq[n][2])

\* The value of the last pair of seq whose key is k, if there is one.
LastOf(seq, k) ==
    LET I == {i \in 1..Len(seq) : seq[i][1] = k}
    IN IF I = {} THEN None ELSE Some(seq[CHOOSE i \in I : \A j \in I : j <= i][2])

\* C9: from_iter(seq) is the map reached from the empty map, and extend(seq)
\* the map reached from the map it is called on, by calling insert for each
\* pair in sequence order; a key that occurs in seq holds the value of its
\* last pair, and any other key what it held before.
C9_BulkIsRepeatedInsert ==
    last.op \in {"from_iter", "extend"}
        => /\ last.op = "from_iter" => last.pre = new
           /\ state_map = InsertEach(last.pre, last.seq)
           /\ \A k \in ProbeKeys :
                get(state_map, k[1], k[2]) =
                    IF LastOf(last.seq, k) # None THEN LastOf(last.seq, k)
                    ELSE get(last.pre, k[1], k[2])

\* An extend of a map that holds a key, by a sequence with two pairs of that
\* key and different values: the second one is what the key holds.
C9_Witness ==
    /\ last.op = "extend" /\ Len(last.seq) = 2
    /\ last.seq[1][1] = last.seq[2][1] /\ last.seq[1][2] # last.seq[2][2]
    /\ get(last.pre, last.seq[1][1][1], last.seq[1][1][2]) = Some(last.seq[1][2])
    /\ get(state_map, last.seq[2][1][1], last.seq[2][1][2]) = Some(last.seq[2][2])

\* The live entries of type m.room.member, and the others.
MemberEntries(m) == {e \in LiveEntries(m) : e[1][1] = TYPE_MEMBERSHIP}
NonMemberEntries(m) == {e \in LiveEntries(m) : e[1][1] # TYPE_MEMBERSHIP}

\* C11: iter_non_members() yields exactly the items of iter() that
\* iter_members() does not yield: every live entry of a type other than
\* m.room.member once and no membership entry; iter_members() yields exactly
\* the live entries of type m.room.member, as (state_key, value).
C11_NonMembersComplement ==
    /\ iter_non_members(state_map) = SetToBag(NonMemberEntries(state_map))
    /\ iter_members(state_map) =
         SetToBag({<<e[1][2], e[2]>> : e \in MemberEntries(state_map)})
    /\ chain(iter_non_members(state_map),
             SetToBag({<<<<TYPE_MEMBERSHIP, x[1]>>, x[2]>> :
                          x \in BagToSet(iter_members(state_map))}))
         = iter(state_map)

\* A map that holds a membership entry under the empty state key and an alias.
C11_Witness ==
    /\ BagToSet(iter_members(state_map)) = {<<"", 1>>}
    /\ BagCardinality(iter_non_members(state_map)) = 1
    /\ hm_len(state_map.aliases) = 1

\* The live entries of type m.room.join_rules, as (state_key, value).
JoinRulesEntries(m) ==
    {<<e[1][2], e[2]>> : e \in {x \in LiveEntries(m) : x[1][1] = TYPE_JOIN_RULES}}

\* C12: iter_join_rules() yields exactly the live entries of type
\* m.room.join_rules as (state_key, value), each once and none of another
\* type: first the well-known one, with state key "", if there is one, then
\* those with a non-empty state key, which the others bucket holds.
C12_JoinRules ==
    /\ iter_join_rules(state_map) = SetToBag(JoinRulesEntries(state_map))
    /\ iter_join_rules_i(state_map) =
         SetToBag({e \in JoinRulesEntries(state_map) : e[1] = ""})
    /\ iter_join_rules_o(state_map) =
         SetToBag({e \in JoinRulesEntries(state_map) : e[1] # ""})
    /\ \A q \in iter_join_rules_orders(state_map) :
         /\ Len(q) = Cardinality(JoinRulesEntries(state_map))
         /\ \A n \in 1..Len(q) : q[n][1] = "" => n = 1

\* A map that holds m.room.join_rules under the empty state key and under a
\* non-empty one: two items, the one of the empty state key first.
C12_Witness ==
    /\ get(state_map, TYPE_JOIN_RULES, "") # None
    /\ get(state_map, TYPE_JOIN_RULES, "foo") # None
    /\ \E q \in iter_join_rules_orders(state_map) :
         Len(q) = 2 /\ q[1][1] = "" /\ q[2][1] = "foo"

\* C13: insert_well_known(k, v) leaves the map in the state that
\* insert(k.as_str(), "", v) leaves it in, for every variant k, every value v
\* and every map.
C13_InsertWellKnownIsInsert ==
    /\ \A k \in WellKnownEmptyKeys, v \in Values :
         insert_well_known(state_map, k, v) = insert(state_map, as_str(k), "", v)
    /\ last.op = "insert_well_known" =>
         state_map = insert(last.pre, as_str(last.t), "", unwrap(last.v))

\* An insert_well_known over another value, on a map that holds the type of
\* the variant with a non-empty state key as well.
C13_Witness ==
    /\ last.op = "insert_well_known" /\ last.t = "JoinRules"
    /\ get_well_known(last.pre, "JoinRules") # None
    /\ get_well_known(last.pre, "JoinRules") # last.v
    /\ get(last.pre, TYPE_JOIN_RULES, "foo") # None
    /\ state_map = insert(last.pre, TYPE_JOIN_RULES, "", unwrap(last.v))

\* C14: an entry is removed only by an add_or_remove that returns Some, and
\* then only the entry of the key passed to it: over an insert, an
\* insert_well_known, a get_mut, a get_mut_or_default, an extend, or an
\* add_or_remove that returns None, every key that was present is still
\* present and len() does not decrease.
C14_RemovalOnlyByConflict ==
    /\ (\/ last.op \in {"insert", "insert_well_known", "get_mut",
                        "get_mut_or_default", "extend"}
        \/ last.op = "add_or_remove" /\ last.ret = None)
          => /\ LiveKeys(last.pre) \subseteq LiveKeys(state_map)
             /\ len(state_map) >= len(last.pre)
    /\ LiveKeys(last.pre) \ LiveKeys(state_map) # {}
          => /\ last.op = "add_or_remove" /\ last.ret # None
             /\ LiveKeys(last.pre) \ LiveKeys(state_map) = {<<last.t, last.s>>}

\* An extend, by a sequence of two pairs, of a map that holds a key the
\* sequence does not have: the key is still there.
C14_Witness ==
    /\ last.op = "extend" /\ Len(last.seq) = 2
    /\ \E k \in LiveKeys(last.pre) :
         /\ \A n \in 1..Len(last.seq) : last.seq[n][1] # k
         /\ k \in LiveKeys(state_map)
    /\ len(state_map) > len(last.pre)

\* C15: no key is held in two buckets: others has no outer key m.room.member,
\* m.room.aliases or m.room.third_party_invite and no entry of a well-known
\* type under the empty state key; a well-known type under a non-empty state
\* key is held in others, and storing it leaves the well-known bucket alone;
\* iter() yields no key twice.
C15_SingleSlot ==
    /\ DOMAIN state_map.others
          \cap {TYPE_MEMBERSHIP, TYPE_ALIASES, TYPE_THIRD_PARTY_INVITE} = {}
    /\ \A t \in DOMAIN state_map.others :
         from_str(t) # None => "" \notin DOMAIN state_map.others[t]
    /\ \A k \in WellKnownEmptyKeys, s \in StateKeys \ {""} :
         get(state_map, as_str(k), s) # None
            => /\ as_str(k) \in DOMAIN state_map.others
               /\ s \in DOMAIN state_map.others[as_str(k)]
    /\ (/\ last.op \in {"insert", "get_mut", "get_mut_or_default", "add_or_remove"}
        /\ from_str(last.t) # None /\ last.s # "")
          => state_map.well_known = last.pre.well_known
    /\ \A e \in BagToSet(iter(state_map)) :
         /\ CopiesIn(e, iter(state_map)) = 1
         /\ \A f \in BagToSet(iter(state_map)) : f[1] = e[1] => f = e

\* m.room.join_rules is stored under a non-empty state key in a map that holds
\* it under the empty one: the two are in different buckets, with different
\* values.
C15_Witness ==
    /\ last.op \in {"insert", "get_mut_or_default", "add_or_remove", "extend"}
    /\ DOMAIN last.pre.well_known = {"JoinRules"} /\ DOMAIN last.pre.others = {}
    /\ DOMAIN state_map.well_known = {"JoinRules"}
    /\ DOMAIN state_map.others = {TYPE_JOIN_RULES}
    /\ DOMAIN state_map.others[TYPE_JOIN_RULES] = {"foo"}
    /\ state_map.others[TYPE_JOIN_RULES]["foo"] # state_map.well_known["JoinRules"]

\* The key (t, s) is one of the inner map of others of type o: its type is o
\* and it is not the key of the well-known bucket that has this type.
InOthers(t, s, o) == t = o /\ (from_str(t) = None \/ s # "")

\* C16: an inner map of others is created only by a call that stores at an
\* absent key (insert, get_mut_or_default, add_or_remove, and extend, which
\* calls insert), never by get, get_mut or contains_key, and is never removed:
\* when an add_or_remove conflict removes the last entry of a type of others,
\* the inner map of the type stays, empty, and len(), iter(), keys() and get()
\* find no entry of it.
C16_InnerMaps ==
    /\ DOMAIN last.pre.others \subseteq DOMAIN state_map.others
    /\ last.op \in {"get", "contains_key"} => state_map = last.pre
    /\ last.op = "get_mut" => DOMAIN state_map.others = DOMAIN last.pre.others
    /\ (last.op # "idle" /\ DOMAIN state_map.others # DOMAIN last.pre.others)
          => /\ last.op \in {"insert", "get_mut_or_default", "add_or_remove", "extend"}
             /\ last.op = "add_or_remove" => last.ret = None
             /\ last.op # "extend"
                  => /\ Old = None
                     /\ DOMAIN state_map.others = DOMAIN last.pre.others \cup {last.t}
    /\ (/\ last.op = "add_or_remove" /\ last.ret # None
        /\ get_mut(last.pre, last.t, last.s) = Some(Ref("others", last.t, last.s))
        /\ hm_len(last.pre.others[last.t]) = 1)
          => /\ last.t \in DOMAIN state_map.others
             /\ state_map.others[last.t] = HashMapNew
             /\ len(state_map) = len(last.pre) - 1
             /\ len(state_map) = Cardinality(LiveKeys(state_map))
             /\ \A e \in BagToSet(iter(state_map)) : ~InOthers(e[1][1], e[1][2], last.t)
             /\ \A k \in BagToSet(keys(state_map)) : ~InOthers(k[1], k[2], last.t)
             /\ \A s \in StateKeys :
                  InOthers(last.t, s, last.t)
                     => /\ get(state_map, last.t, s) = None
                        /\ ~contains_key(state_map, last.t, s)

\* A conflict has just removed the only entry of the map, one of a type of
\* others: the map is empty and is not the new map.
C16_Witness ==
    /\ last.op = "add_or_remove" /\ last.ret # None /\ last.t = "test"
    /\ hm_len(last.pre.others["test"]) = 1
    /\ state_map.others = hm_insert(HashMapNew, "test", HashMapNew)
    /\ is_empty(state_map) /\ state_map # new
    /\ iter(state_map) = EmptyBag /\ keys(state_map) = EmptyBag

\* The bucket that holds the key k, numbered in the order well-known,
\* membership, alias, invite, other.
Bucket(k) ==
    IF k[2] = "" /\ from_str(k[1]) # None THEN 1
    ELSE IF k[1] = TYPE_MEMBERSHIP THEN 2
    ELSE IF k[1] = TYPE_ALIASES THEN 3
    ELSE IF k[1] = TYPE_THIRD_PARTY_INVITE THEN 4
    ELSE 5

\* The keys of the sequence q are in the order of their buckets.
BucketOrder(q) == \A x, y \in 1..Len(q) : x < y => Bucket(q[x]) <= Bucket(q[y])

\* The sequence of the keys, and of the values, of a sequence of items of iter().
KeysOf(p) == [n \in 1..Len(p) |-> p[n][1]]
ValuesOf(p) == [n \in 1..Len(p) |-> p[n][2]]

\* C17: keys(), iter() and values() yield the buckets in the order well-known,
\* membership, alias, invite, other: in a sequence one of them may yield, no
\* item of a later bucket comes before an item of an earlier one (for values(),
\* whose items do not tell their bucket: the sequence is that of the values of
\* a sequence iter() may yield); any enumeration of the live entries in that
\* order of buckets may be yielded, whatever the order inside a bucket.
C17_BucketOrder ==
    /\ \A p \in iter_orders(state_map) : BucketOrder(KeysOf(p))
    /\ \A q \in keys_orders(state_map) : BucketOrder(q)
    /\ keys_orders(state_map) = {KeysOf(p) : p \in iter_orders(state_map)}
    /\ values_orders(state_map) = {ValuesOf(p) : p \in iter_orders(state_map)}
    /\ iter_orders(state_map) =
         {p \in Orders(SetToBag(LiveEntries(state_map))) : BucketOrder(KeysOf(p))}
    /\ LET p == iter_parts(state_map)
       IN iter(state_map) = chain(chain(chain(chain(p[1], p[2]), p[3]), p[4]), p[5])

\* An entry of the well-known bucket has just been inserted into a map that
\* held an entry of the others bucket, of another value: the new entry is
\* yielded first.
C17_Witness ==
    /\ last.op = "insert" /\ Bucket(<<last.t, last.s>>) = 1 /\ Old = None
    /\ \E k \in LiveKeys(last.pre) : Bucket(k) = 5
    /\ \A q \in keys_orders(state_map) :
         Len(q) = 2 /\ q[1] = <<last.t, last.s>> /\ Bucket(q[2]) = 5
    /\ \A q \in values_orders(state_map) : q[1] = unwrap(last.v) /\ q[2] # q[1]

\* The bag of the elements of the sequence q.
SeqToBag(q) ==
    [x \in {q[n] : n \in 1..Len(q)} |-> Cardinality({n \in 1..Len(q) : q[n] = x})]

\* The items of iter(), in one of the orders it may yield them.
IterItems(m) == CHOOSE p \in Orders(iter(m)) : TRUE

\* C18: keys() and values() yield one item for each live entry: keys() the
\* bag of the keys of the items of iter(), with no key twice, values() the bag
\* of their values, and both len() items.
C18_KeysValues ==
    /\ keys(state_map) = SeqToBag(KeysOf(IterItems(state_map)))
    /\ values(state_map) = SeqToBag(ValuesOf(IterItems(state_map)))
    /\ \A k \in BagToSet(keys(state_map)) : CopiesIn(k, keys(state_map)) = 1
    /\ keys(state_map) = SetToBag(LiveKeys(state_map))
    /\ BagCardinality(keys(state_map)) = len(state_map)
    /\ BagCardinality(values(state_map)) = len(state_map)

\* Two entries of one bucket hold the same value: values() yields it twice.
C18_Witness ==
    /\ hm_len(state_map.membership) = 2
    /\ BagToSet(values(state_map)) = {1}
    /\ CopiesIn(1, values(state_map)) = 2
    /\ BagCardinality(keys(state_map)) = 2

\* C19: as_str and from_str are a bijection between the eleven variants and
\* their strings: from_str(v.as_str()) is Some(v); from_str(t) = Some(v) only
\* if v.as_str() = t; two variants have two strings; from_str is None for any
\* other string, such as m.room.member, m.room.aliases and
\* m.room.third_party_invite.
C19_Bijection ==
    \A x, y \in 1..Len(last.seq) :
        LET c == last.seq[x]
            d == last.seq[y]
        IN /\ c.op = "as_str" => from_str(c.ret) = Some(c.arg)
           /\ (c.op = "as_str" /\ d.op = "from_str" /\ d.arg = c.ret)
                => d.ret = Some(c.arg)
           /\ (c.op = "from_str" /\ c.ret # None)
                => /\ unwrap(c.ret) \in WellKnownEmptyKeys
                   /\ as_str(unwrap(c.ret)) = c.arg
           /\ (c.op = "from_str" /\ d.op = "as_str" /\ c.ret = Some(d.arg))
                => d.ret = c.arg
           /\ (c.op = "as_str" /\ d.op = "as_str" /\ c.arg # d.arg) => c.ret # d.ret
           /\ (c.op = "from_str" /\ \A k \in WellKnownEmptyKeys : as_str(k) # c.arg)
                => c.ret = None
           /\ (/\ c.op = "from_str"
               /\ c.arg \in {TYPE_MEMBERSHIP, TYPE_ALIASES, TYPE_THIRD_PARTY_INVITE})
                => c.ret = None

\* as_str of a variant, then from_str of the string it returned: the variant
\* is returned.
C19_Witness ==
    /\ Len(last.seq) = 2
    /\ last.seq[1].op = "as_str" /\ last.seq[1].arg = "CanonicalAliases"
    /\ last.seq[2].op = "from_str" /\ last.seq[2].arg = last.seq[1].ret
    /\ last.seq[2].ret = Some("CanonicalAliases")

\* C20: insert(k, _), get_mut_or_default(k), a write through get_mut(k) and
\* add_or_remove(k, _) change at most the entry of k: for every other key,
\* of the same bucket or of another one, of the same type or the same state
\* key or neither, get() returns after the call what it returned before.
C20_Frame ==
    last.op \in {"insert", "get_mut_or_default", "get_mut", "add_or_remove"}
        => \A k \in ProbeKeys \ {<<last.t, last.s>>} :
             get(state_map, k[1], k[2]) = get(last.pre, k[1], k[2])

\* A write through get_mut changes the value of a key of the membership
\* bucket, which holds another key, with the value the first one had.
C20_Witness ==
    /\ last.op = "get_mut" /\ last.t = TYPE_MEMBERSHIP
    /\ last.v # None /\ Old # None /\ Now = last.v /\ Old # last.v
    /\ \E s \in StateKeys \ {last.s} :
         /\ get(last.pre, TYPE_MEMBERSHIP, s) = Old
         /\ get(state_map, TYPE_MEMBERSHIP, s) = Old

\* C21: add_or_remove(k, v) called twice in a row ends with get(k) = Some(v),
\* and the second call returns None, whether k was absent, held v, or held
\* another value, which the first call then removed and returned.
C21_TwiceRestores ==
    /\ \A k \in ProbeKeys, v \in Values :
         LET held == get(state_map, k[1], k[2])
             first == add_or_remove(state_map, k[1], k[2], v)
             second == add_or_remove(first.map, k[1], k[2], v)
         IN /\ second.ret = None
            /\ get(second.map, k[1], k[2]) = Some(v)
            /\ (held # None /\ held # Some(v))
                 => (first.ret = held /\ get(first.map, k[1], k[2]) = None)
    /\ last.op = "add_or_remove"
         => LET second == add_or_remove(state_map, last.t, last.s, unwrap(last.v))
            IN second.ret = None /\ get(second.map, last.t, last.s) = last.v

\* The second of two calls add_or_remove("test", s, v) on a map that held
\* another value at the key: the first call has removed it and left the inner
\* map empty, the second one has returned None and stored v.
C21_Witness ==
    /\ last.op = "add_or_remove" /\ last.t = "test"
    /\ "test" \in DOMAIN last.pre.others /\ DOMAIN last.pre.others["test"] = {}
    /\ last.ret = None /\ Now = last.v

\* C22: two maps that the operations reach and that hold the same entries
\* (iter() yields the same items) are equal under the derived ==; the two maps
\* here are the map as it is and the map as it was before the last call, or,
\* once what the call returned is dropped, the new map.
C22_EqualityTracksContent ==
    iter(state_map) = iter(last.pre) => eq(state_map, last.pre)

====
